---- MODULE Spec2Model ----
(***************************************************************************)
(* Model of the two generation loops of LLL-TestData-Generator:            *)
(*   generate_for_locale      (GenerateLocaleTestData.py)                  *)
(*   generate_bulk_rate_safe  (TestcaseTokens.py)                          *)
(* One behaviour is one run of one of the two functions.  The remote       *)
(* endpoint and the file system are the environment: every HTTP dispatch   *)
(* draws its outcome (transport exception, status, body shape, rate-limit  *)
(* header) from small sets, and every file access may fail.                *)
(*                                                                         *)
(* Optional values are encoded as sequences: <<>> is None / an absent key, *)
(* <<v>> is the value v.  A text is a sequence of characters, "ctl" being  *)
(* a control character of the class [\x00-\x08\x0b\x0c\x0e-\x1f].          *)
(***************************************************************************)
EXTENDS Integers, Sequences, FiniteSets, TLC

\* ---------------------------------------------------------------- bounds
\* a run has at most MaxItems (seed, repetition) pairs
MaxItems == 4
\* records in the output file before the run
MaxExisting == 2
\* sanitize_text's max_len (100000 in the source), scaled down
max_len == 2
\* items of a run whose pacing is observed
MaxPacedItems == 2
\* the kb argument
MaxKb == 2
\* length of the strings given to sanitize_text
MaxStr == 4

\* ------------------------------------------------------ program constants
\* stop_after_attempt(3) on call_groq
LOCALE_MAX_ATTEMPTS == 3
\* stop_after_attempt(4) on call_groq_once
BULK_MAX_ATTEMPTS == 4
\* default of generate_bulk_rate_safe's safety_token_threshold
safety_token_threshold == 200

\* ------------------------------------------------------------ environment
AllSeeds == <<"s1", "s2", "s3", "s4", "s5", "s6">>
SeedLists == { SubSeq(AllSeeds, 1, n) : n \in 0..MaxItems }

CTL == "ctl"
LongText == [k \in 1..(max_len + 1) |-> "a"]
\* texts the endpoint may put in a field or in a raw body: empty, plain,
\* control characters only, a control character followed by a text longer
\* than max_len
Texts == { <<>>, <<"a">>, <<CTL>>, <<CTL>> \o LongText }

\* final HTTP statuses seen by the caller of requests.post
Statuses == {200, 304, 429, 500}

\* shapes of a body that parses as JSON; the text fields hold bodyText
JsonBodies == {"output_text", "choices_msg_content", "choices_msg_text",
               "choices_msg_str", "choices_msg_absent", "choices_str",
               "neither", "non_object"}

\* values of the x-ratelimit-remaining-tokens header
RemainingValues == {200, 201}
RemainingHeaders == { [kind |-> "absent", val |-> 0],
                      [kind |-> "garbage", val |-> 0] }
                      \cup [kind : {"num"}, val : RemainingValues]

\* throttle_delay / throttle in milliseconds: the default of both functions
\* and THROTTLE of runbulk.py
DEFAULT_THROTTLE == 500
RUNBULK_THROTTLE == 3000
Throttles == {DEFAULT_THROTTLE, RUNBULK_THROTTLE}

\* what the endpoint of a run puts in its 429 responses: the retry-after
\* header (milliseconds when numeric) and the N of "try again in Nms" in the
\* body (0: no such text)
PacingHints ==
    { [header |-> [kind |-> "absent", val |-> 0], hintMs |-> 0],
      [header |-> [kind |-> "absent", val |-> 0], hintMs |-> 420],
      [header |-> [kind |-> "num", val |-> 2000], hintMs |-> 420],
      [header |-> [kind |-> "garbage", val |-> 0], hintMs |-> 420],
      [header |-> [kind |-> "garbage", val |-> 0], hintMs |-> 0] }
NoHints == [header |-> [kind |-> "absent", val |-> 0], hintMs |-> 0]

\* the output file before the run
OldRecord(k) ==
    [seed |-> AllSeeds[k], visitor_message |-> << <<"o">> >>,
     error |-> <<>>, preview |-> <<>>]
InitialFiles == { [kind |-> "absent", recs |-> <<>>],
                  [kind |-> "corrupt", recs |-> <<>>],
                  [kind |-> "list", recs |-> [k \in 1..MaxExisting |-> OldRecord(k)]] }

\* ------------------------------------------------------------------ state
VARIABLES
    fn,          \* "locale" (generate_for_locale) or "bulk" (generate_bulk_rate_safe)
    seeds,       \* the seeds argument
    per_seed,    \* the per_seed argument
    dry_run,     \* the dry_run argument (generate_for_locale only)
    jsonErrIsRequestException,
                 \* whether the installed requests raises a RequestException
                 \* subclass from Response.json() (requests >= 2.27) or a
                 \* plain ValueError
    bodyText,    \* the text the endpoint of this run puts in its responses
    s,           \* position of the outer loop in seeds (1-based)
    i,           \* position of the inner loop, range(per_seed)
    attempt,     \* dispatches made so far for the current item
    httpOk,      \* some dispatch of the current item got a 2xx status
    out,         \* the accumulator list
    file,        \* the output file
    pc,          \* "start" (module being loaded), "loop", "done"
                 \* (returned), "crashed" (raised), "killed"; "pure" when
                 \* only sanitize_text is applied
    ret,         \* what the call returned: "none", "list", "path", "raised"
    cfg,         \* configuration and arguments of the run that do not change
                 \* its control flow: kb, throttle_delay, whether
                 \* GROQ_API_KEY and GROQ_API_URL are set, the pacing hints
                 \* of the endpoint, and whether the run's pacing is
                 \* observed in obs
    san,         \* sanitize_text applied to the string x: y, then z
    \* ---- history of the run, read only by the properties
    exc,         \* the exception that ended the run, "none" otherwise
    obs,         \* of an observed run: number of dispatches; status,
                 \* max_tokens and 429 sleep of the latest dispatch;
                 \* milliseconds slept since the latest dispatch
    file0,       \* the output file before the run
    dispatched,  \* requests.post has been called in this run
    last,        \* the item recorded last: whether all its dispatches
                 \* failed (exception or non-2xx status), whether its
                 \* response had remaining tokens <= threshold
    early,       \* the run returned from the early-stop branch
    wrote,       \* the run has written the output file
    writeFailed  \* a file access of the run has failed

vars == <<fn, seeds, per_seed, dry_run, jsonErrIsRequestException, bodyText,
          s, i, attempt, httpOk, out, file, pc, ret, file0, dispatched, last,
          early, wrote, writeFailed, cfg, exc, san, obs>>

args == <<fn, seeds, per_seed, dry_run, jsonErrIsRequestException, bodyText,
          file0, cfg, san>>

total == Len(seeds) * per_seed

\* ---------------------------------------------------------- pure functions
RECURSIVE StripControl(_)
StripControl(t) ==
    IF t = <<>> THEN <<>>
    ELSE IF Head(t) = CTL THEN StripControl(Tail(t))
         ELSE <<Head(t)>> \o StripControl(Tail(t))

\* "\n\n...[truncated]", which holds no stripped control character
TruncationMarker ==
    <<"\n", "\n", ".", ".", ".", "[", "t", "r", "u", "n", "c", "a", "t", "e", "d", "]">>

\* a sanitize_text that cuts the string before it strips it
sanitize_text_cut_first(t, maxlen) ==
    IF t = <<>> THEN t
    ELSE IF Len(t) > maxlen
         THEN StripControl(SubSeq(t, 1, maxlen) \o TruncationMarker)
         ELSE StripControl(t)

\* a sanitize_text that cuts with len(s) >= max_len
sanitize_text_ge(t, maxlen) ==
    IF t = <<>> THEN t
    ELSE LET stripped == StripControl(t)
         IN  IF Len(stripped) >= maxlen
             THEN SubSeq(stripped, 1, maxlen) \o TruncationMarker
             ELSE stripped

sanitize_text(t, maxlen) ==
    IF t = <<>> THEN t
    ELSE LET stripped == StripControl(t)
         IN  IF Len(stripped) > maxlen
             THEN SubSeq(stripped, 1, maxlen) \o TruncationMarker
             ELSE stripped

\* str(resp) / json.dumps(resp) of a parsed body: never empty, and control
\* characters inside it are escaped by repr / ensure_ascii
Stringified == <<"r">>

\* x or y on two optional texts, "" being falsy
Or(x, y) == IF x # <<>> /\ x[1] # <<>> THEN x ELSE y

\* resp.get on a parsed body that is not an object raises AttributeError
BulkRaises(body) == body = "non_object"

\* text extraction of generate_bulk_rate_safe
BulkExtract(body, text) ==
    LET found ==
          CASE body = "output_text" -> Or(<<text>>, <<>>)
            [] body = "choices_msg_content" -> Or(<<text>>, <<>>)
            [] body = "choices_msg_text" -> Or(<<>>, <<text>>)
            [] body = "choices_msg_str" -> <<text>>
            [] body = "choices_str" -> <<text>>
            [] OTHER -> <<>>
    IN  Or(found, <<Stringified>>)[1]

\* msg.get on a 'message' that is a non-empty string raises AttributeError
LocaleRaises(body, text) == body = "choices_msg_str" /\ text # <<>>

\* text extraction of generate_for_locale, before sanitize_text
LocaleExtract(body, text) ==
    LET found ==
          CASE body = "output_text" -> Or(<<text>>, <<>>)
            [] body = "choices_msg_content" -> Or(<<text>>, <<>>)
            [] body = "choices_msg_text" -> Or(<<>>, <<text>>)
            [] body = "choices_str" -> <<text>>
            [] OTHER -> <<>>
    IN  Or(found, <<Stringified>>)[1]

\* Python's max and min
Max(a, b) == IF a >= b THEN a ELSE b
Min(a, b) == IF a <= b THEN a ELSE b

\* call_groq's own default max_tokens=256, whatever kb is
tokens_for_kb_default(kb) == 256
\* _tokens_for_kb of both modules: max(32, int(kb * 1024 // 4))
tokens_for_kb(kb) == Max(32, (kb * 1024) \div 4)

\* _sleep_from_retry_headers, in milliseconds: float(retry-after), else
\* int(N) / 1000.0 + 0.05 for "try again in Nms" in the body, else 1.0
sleep_from_retry_headers(h) ==
    IF h.header.kind = "num" THEN h.header.val
    ELSE IF h.hintMs > 0 THEN h.hintMs + 50
    ELSE 1000

\* tenacity's wait_exponential(multiplier, min, max) after n failed
\* attempts, in milliseconds
wait_exponential(multiplier, lo, hi, n) ==
    Max(lo, Min(multiplier * 2^(n - 1), hi))

\* the wait of the retry decorator of call_groq / call_groq_once
Backoff(n) ==
    IF fn = "locale" THEN wait_exponential(1000, 1000, 10000, n)
    ELSE wait_exponential(500, 500, 10000, n)

\* the 429 branch of call_groq_once sleeps before raise_for_status;
\* call_groq has no such branch
SleepFor(status) ==
    IF fn = "bulk" /\ status = 429 THEN sleep_from_retry_headers(cfg.hints)
    ELSE 0

\* time.sleep(sec + 1.0) on a low remaining budget in the JSON path, with the
\* default "60s" of x-ratelimit-reset-tokens
ResetWait == 61000

\* requests.Response.raise_for_status
RaisesForStatus(status) == 400 <= status /\ status < 600

\* the records appended to out
SuccessRecord(seed, text) ==
    [seed |-> seed, visitor_message |-> <<text>>, error |-> <<>>, preview |-> <<>>]
ErrorRecord(seed) ==
    [seed |-> seed, visitor_message |-> <<>>, error |-> <<"error">>, preview |-> <<>>]
\* a dry-run record that carries the error of a failed call instead of a preview
DryRunRecordAsError(seed) ==
    [seed |-> seed, visitor_message |-> <<>>, error |-> <<"error">>, preview |-> <<>>]
DryRunRecord(seed) ==
    [seed |-> seed, visitor_message |-> <<>>, error |-> <<>>, preview |-> <<"prompt">>]

\* remaining_tokens <= safety_token_threshold
LowBudget(h) == h.kind = "num" /\ h.val <= safety_token_threshold

MaxAttempts == IF fn = "locale" THEN LOCALE_MAX_ATTEMPTS ELSE BULK_MAX_ATTEMPTS

\* ------------------------------------------------------------------- loops
\* for seed in seeds: for i in range(per_seed)
HasItem == per_seed > 0 /\ s <= Len(seeds)
NextI(k) == IF k + 1 < per_seed THEN k + 1 ELSE 0
\* the outer loop moving on after every item
NextSEveryItem(k) == s + 1
NextS(k) == IF k + 1 < per_seed THEN s ELSE s + 1

\* both values configured, the default arguments, pacing not observed
DefaultCfg ==
    [kb |-> 1, throttle_delay |-> DEFAULT_THROTTLE, hasKey |-> TRUE,
     hasUrl |-> TRUE, hints |-> NoHints, watch |-> FALSE]

NoObs == [dispatches |-> 0, status |-> 0, max_tokens |-> 0, sleep_for |-> 0,
          slept |-> 0]
NoSan == [x |-> <<>>, y |-> <<>>, z |-> <<>>, step |-> 0]

\* nothing has run yet
Fresh ==
    /\ file = file0
    /\ s = 1 /\ i = 0 /\ attempt = 0 /\ httpOk = FALSE
    /\ out = <<>>
    /\ ret = "none" /\ exc = "none"
    /\ dispatched = FALSE
    /\ obs = NoObs
    /\ last = [allFailed |-> FALSE, low |-> FALSE]
    /\ early = FALSE /\ wrote = FALSE /\ writeFailed = FALSE

\* the arguments that only generate_for_locale has
LocaleOnly ==
    /\ dry_run \in BOOLEAN
    /\ (fn = "bulk" => dry_run = FALSE)
    /\ jsonErrIsRequestException \in BOOLEAN
    /\ (fn = "bulk" \/ dry_run => jsonErrIsRequestException = TRUE)

Init ==
    /\ fn \in {"locale", "bulk"}
    /\ seeds \in SeedLists
    /\ per_seed \in 0..MaxItems
    /\ Len(seeds) * per_seed <= MaxItems
    /\ LocaleOnly
    /\ bodyText \in Texts
    /\ (dry_run => bodyText = <<>>)
    /\ file0 \in InitialFiles
    /\ cfg = DefaultCfg
    /\ san = NoSan
    /\ pc = "loop"
    /\ Fresh

Is2xx(status) == 200 <= status /\ status < 300

\* outcomes of one dispatch that raise a RequestException inside the
\* retried call: a transport exception (0), or raise_for_status on the status
Failures == {0} \cup { st \in Statuses : RaisesForStatus(st) }
\* final statuses on which raise_for_status does not raise
Returned == { st \in Statuses : ~RaisesForStatus(st) }

\* requests.post(None, ...) raises MissingSchema, a RequestException, so
\* without GROQ_API_URL every dispatch is a transport exception
Causes == IF cfg.hasUrl THEN Failures ELSE {0}
Answers == IF cfg.hasUrl THEN Returned ELSE {}

\* requests.post is called, its outcome is status, and the loop then sleeps
\* after milliseconds before its next dispatch
Dispatch(status, after) ==
    /\ dispatched' = TRUE
    /\ obs' = IF cfg.watch
              THEN [dispatches |-> obs.dispatches + 1,
                    status |-> status,
                    max_tokens |-> tokens_for_kb(cfg.kb),
                    sleep_for |-> SleepFor(status),
                    slept |-> SleepFor(status) + after]
              ELSE obs

\* the record rec ends the current item; the loops move on
Record(rec, ok, h) ==
    /\ out' = Append(out, rec)
    /\ s' = NextS(i) /\ i' = NextI(i)
    /\ attempt' = 0
    /\ httpOk' = FALSE
    /\ last' = [allFailed |-> ~(httpOk \/ ok), low |-> LowBudget(h)]

\* a retry that does not count the attempt
RetryUncounted(ok) ==
    /\ attempt' = attempt
    /\ httpOk' = (httpOk \/ ok)
    /\ UNCHANGED <<out, s, i, last>>
\* the current item is dispatched again
Retry(ok) ==
    /\ attempt' = attempt + 1
    /\ httpOk' = (httpOk \/ ok)
    /\ UNCHANGED <<out, s, i, last>>

NoHeader == [kind |-> "absent", val |-> 0]

\* a loop that dumps the accumulator after every item
ContinueCheckpoint ==
    /\ file' = [kind |-> "list", recs |-> out']
    /\ UNCHANGED <<pc, ret, exc, early, wrote, writeFailed>>
Continue == UNCHANGED <<pc, ret, exc, file, early, wrote, writeFailed>>

\* the exception e leaves the function
Raise(e) ==
    /\ pc' = "crashed" /\ ret' = "raised" /\ exc' = e
    /\ UNCHANGED <<file, early, wrote>>

\* -------------------------------------------------- generate_for_locale
Running(f) == pc = "loop" /\ fn = f

LocaleDryRunItem ==
    /\ Running("locale") /\ dry_run /\ HasItem
    /\ Record(DryRunRecord(seeds[s]), TRUE, NoHeader)
    /\ Continue
    /\ UNCHANGED <<args, dispatched, obs>>

\* call_groq raises a RequestException: retried, or RetryError caught by
\* the loop once the attempts are used up
LocaleCallFails ==
    /\ Running("locale") /\ ~dry_run /\ HasItem
    /\ \E cause \in Causes :
         IF attempt + 1 < LOCALE_MAX_ATTEMPTS
         THEN /\ Retry(FALSE)
              /\ Dispatch(cause, Backoff(attempt + 1))
         ELSE /\ Record(ErrorRecord(seeds[s]), FALSE, NoHeader)
              /\ Dispatch(cause, Max(cfg.throttle_delay, 1000))
    /\ Continue
    /\ UNCHANGED args

\* the status does not raise and r.json() raises
LocaleBadJson ==
    /\ Running("locale") /\ ~dry_run /\ HasItem
    /\ \E st \in Answers :
         IF jsonErrIsRequestException /\ attempt + 1 < LOCALE_MAX_ATTEMPTS
         THEN /\ Retry(Is2xx(st))
              /\ Dispatch(st, Backoff(attempt + 1))
         ELSE /\ Record(ErrorRecord(seeds[s]), Is2xx(st), NoHeader)
              /\ Dispatch(st, Max(cfg.throttle_delay, 1000))
    /\ Continue
    /\ UNCHANGED args

\* call_groq returns the parsed body
LocaleResponse ==
    /\ Running("locale") /\ ~dry_run /\ HasItem
    /\ \E st \in Answers, body \in JsonBodies :
         IF LocaleRaises(body, bodyText)
         THEN /\ Raise("AttributeError")
              /\ Dispatch(st, 0)
              /\ UNCHANGED <<out, s, i, attempt, httpOk, last, writeFailed>>
         ELSE /\ Record(SuccessRecord(seeds[s],
                           sanitize_text(LocaleExtract(body, bodyText), max_len)),
                        Is2xx(st), NoHeader)
              /\ Dispatch(st, cfg.throttle_delay)
              /\ Continue
    /\ UNCHANGED args

\* write file (append if exists), inside try/except; return out
LocaleWrite ==
    /\ Running("locale") /\ ~HasItem
    /\ \E ioOk \in BOOLEAN :
         IF ioOk /\ file.kind # "corrupt"
         THEN /\ file' = [kind |-> "list", recs |-> file.recs \o out]
              /\ wrote' = TRUE
              /\ UNCHANGED writeFailed
         ELSE /\ writeFailed' = TRUE
              /\ UNCHANGED <<file, wrote>>
    /\ pc' = "done" /\ ret' = "list"
    /\ UNCHANGED <<args, s, i, attempt, httpOk, out, dispatched, last, early,
                   exc, obs>>

\* ---------------------------------------------- generate_bulk_rate_safe
\* open(out_file, "w") and json.dump(out), outside any try
BulkDump(contents, isEarly) ==
    \E ioOk \in BOOLEAN :
       IF ioOk
       THEN /\ file' = [kind |-> "list", recs |-> contents]
            /\ wrote' = TRUE
            /\ early' = isEarly
            /\ pc' = "done" /\ ret' = "path"
            /\ UNCHANGED <<writeFailed, exc>>
       ELSE /\ writeFailed' = TRUE
            /\ Raise("OSError")

\* call_groq_once raises a RequestException
BulkCallFails ==
    /\ Running("bulk") /\ HasItem
    /\ \E cause \in Causes :
         IF attempt + 1 < BULK_MAX_ATTEMPTS
         THEN /\ Retry(FALSE)
              /\ Dispatch(cause, Backoff(attempt + 1))
         ELSE /\ Record(ErrorRecord(seeds[s]), FALSE, NoHeader)
              /\ Dispatch(cause, Max(1000, cfg.throttle_delay))
    /\ Continue
    /\ UNCHANGED args

\* call_groq_once returns r and r.json() raises: the raw-text path
BulkRawResponse ==
    /\ Running("bulk") /\ HasItem
    /\ \E st \in Answers, h \in RemainingHeaders :
         /\ Record(SuccessRecord(seeds[s], bodyText), Is2xx(st), h)
         /\ CASE h.kind = "garbage" ->
                   Raise("ValueError") /\ Dispatch(st, 0) /\ UNCHANGED writeFailed
              [] LowBudget(h) -> BulkDump(out', TRUE) /\ Dispatch(st, 0)
              [] OTHER -> Continue /\ Dispatch(st, cfg.throttle_delay)
    /\ UNCHANGED args

\* call_groq_once returns r and r.json() returns resp
BulkJsonResponse ==
    /\ Running("bulk") /\ HasItem
    /\ \E st \in Answers, body \in JsonBodies, h \in RemainingHeaders :
         IF BulkRaises(body)
         THEN /\ Raise("AttributeError")
              /\ Dispatch(st, 0)
              /\ UNCHANGED <<out, s, i, attempt, httpOk, last, writeFailed>>
         ELSE /\ Record(SuccessRecord(seeds[s], BulkExtract(body, bodyText)),
                        Is2xx(st), h)
              /\ Dispatch(st, IF LowBudget(h)
                              THEN ResetWait + cfg.throttle_delay
                              ELSE cfg.throttle_delay)
              /\ Continue
    /\ UNCHANGED args

\* the write after the loops
BulkWrite ==
    /\ Running("bulk") /\ ~HasItem
    /\ BulkDump(out, FALSE)
    /\ UNCHANGED <<args, s, i, attempt, httpOk, out, dispatched, last, obs>>

\* ------------------------------------------------------- the environment
\* the process is terminated during the run
Kill ==
    /\ pc = "loop"
    /\ pc' = "killed"
    /\ UNCHANGED <<args, s, i, attempt, httpOk, out, file, ret, dispatched,
                   last, early, wrote, writeFailed, exc, obs>>

Next ==
    \/ LocaleDryRunItem
    \/ LocaleCallFails
    \/ LocaleBadJson
    \/ LocaleResponse
    \/ LocaleWrite
    \/ BulkCallFails
    \/ BulkRawResponse
    \/ BulkJsonResponse
    \/ BulkWrite
    \/ Kill

Spec == Init /\ [][Next]_vars

\* ------------------------------------------- runs with their pacing observed
PacedSeedLists == { SubSeq(AllSeeds, 1, n) : n \in 0..MaxPacedItems }

\* the runs vary one thing at a time: a value that is not configured, or
\* kb, or the throttle together with the endpoint's 429 hints
Cfgs ==
    { c \in [kb : 0..MaxKb, throttle_delay : Throttles, hasKey : BOOLEAN,
             hasUrl : BOOLEAN, hints : PacingHints, watch : {TRUE}] :
        LET paced == c.throttle_delay # DEFAULT_THROTTLE \/ c.hints # NoHints
        IN  /\ (~c.hasKey \/ ~c.hasUrl) => (c.kb = 1 /\ ~paced)
            /\ paced => c.kb = 1 }

\* the module is about to be loaded
InitPaced ==
    /\ fn \in {"locale", "bulk"}
    /\ seeds \in PacedSeedLists
    /\ per_seed \in 0..MaxPacedItems
    /\ Len(seeds) * per_seed <= MaxPacedItems
    /\ LocaleOnly
    /\ bodyText = IF dry_run THEN <<>> ELSE <<"a">>
    /\ file0 = [kind |-> "absent", recs |-> <<>>]
    /\ cfg \in Cfgs
    /\ san = NoSan
    /\ pc = "start"
    /\ Fresh

\* the module-level code: GenerateLocaleTestData raises EnvironmentError
\* without GROQ_API_KEY and checks nothing else; TestcaseTokens checks nothing
Startup ==
    /\ pc = "start"
    /\ IF fn = "locale" /\ ~cfg.hasKey
       THEN Raise("EnvironmentError") /\ UNCHANGED writeFailed
       ELSE /\ pc' = "loop"
            /\ UNCHANGED <<ret, exc, file, early, wrote, writeFailed>>
    /\ UNCHANGED <<args, s, i, attempt, httpOk, out, dispatched, last, obs>>

NextPaced == Startup \/ Next

SpecPaced == InitPaced /\ [][NextPaced]_vars

\* observed runs with both values configured and the default arguments
InitFair ==
    /\ InitPaced
    /\ cfg = [DefaultCfg EXCEPT !.watch = TRUE]

\* the interpreter keeps running the program and every request ends, with a
\* response or with an exception (timeout=120)
FairSpec == InitFair /\ [][NextPaced]_vars /\ WF_vars(NextPaced)

\* ------------------------------------------------ sanitize_text on its own
\* the characters of a string: a letter, a newline (kept by sanitize_text)
\* and a stripped control character
Alphabet == {"a", "\n", CTL}
Strings == UNION { [1..n -> Alphabet] : n \in 0..MaxStr }

\* everything but san
run == <<fn, seeds, per_seed, dry_run, jsonErrIsRequestException, bodyText,
         s, i, attempt, httpOk, out, file, pc, ret, file0, dispatched, last,
         early, wrote, writeFailed, cfg, exc, obs>>

\* no generation runs; san.x is the argument of sanitize_text
InitSanitize ==
    /\ fn = "locale" /\ seeds = <<>> /\ per_seed = 0
    /\ dry_run = FALSE /\ jsonErrIsRequestException = TRUE
    /\ bodyText = <<>>
    /\ file0 = [kind |-> "absent", recs |-> <<>>]
    /\ cfg = DefaultCfg
    /\ pc = "pure"
    /\ Fresh
    /\ \E str \in Strings : san = [NoSan EXCEPT !.x = str]

\* y = sanitize_text(x)
SanitizeInput ==
    /\ pc = "pure" /\ san.step = 0
    /\ san' = [san EXCEPT !.y = sanitize_text(san.x, max_len), !.step = 1]
    /\ UNCHANGED run

\* z = sanitize_text(y)
SanitizeAgain ==
    /\ pc = "pure" /\ san.step = 1
    /\ san' = [san EXCEPT !.z = sanitize_text(san.y, max_len), !.step = 2]
    /\ UNCHANGED run

NextSanitize == SanitizeInput \/ SanitizeAgain

SpecSanitize == InitSanitize /\ [][NextSanitize]_vars

TypeOK ==
    /\ pc \in {"start", "loop", "done", "crashed", "killed", "pure"}
    /\ ret \in {"none", "list", "path", "raised"}
    /\ attempt \in 0..(MaxAttempts - 1)
    /\ Len(out) <= total

\* ------------------------------------------------------------- properties
Ended == pc \in {"done", "crashed"}

\* the last n records of the file are the list recs
EndsWith(recs) ==
    \/ recs = <<>>
    \/ /\ file.kind = "list"
       /\ Len(file.recs) >= Len(recs)
       /\ SubSeq(file.recs, Len(file.recs) - Len(recs) + 1, Len(file.recs)) = recs

IsPrefix(a, b) == Len(a) <= Len(b) /\ SubSeq(b, 1, Len(a)) = a

\* C1: in generate_bulk_rate_safe, once the response of item K < total
\* reports remaining tokens <= safety_token_threshold, the run has returned
\* with exactly K records, all of them in the output file (file accesses
\* succeeding).
C1_EarlyStop ==
    (fn = "bulk" /\ last.low /\ Len(out) < total /\ ~writeFailed)
        => (pc = "done" /\ file.kind = "list" /\ file.recs = out)

\* C2: every write of the output file leaves the N records the file held
\* before the run, in their order, followed by the M records of the run.
C2_Merge ==
    (wrote /\ file0.kind # "corrupt")
        => (file.kind = "list" /\ file.recs = file0.recs \o out)

\* C3: whenever a run has stopped, by returning or by raising, with every
\* file access succeeding, the accumulated results are in the output file.
C3_Durability ==
    (Ended /\ ~writeFailed) => EndsWith(out)

\* C4: a run that returns without early stop has appended len(seeds) *
\* per_seed records, the record at position s*R + i carrying seeds[s]; and
\* the accumulator only ever grows at its end.
C4_CompletedRunCount ==
    /\ []((pc = "done" /\ ~early) =>
            /\ Len(out) = Len(seeds) * per_seed
            /\ \A sx \in 0..(Len(seeds) - 1) : \A ix \in 0..(per_seed - 1) :
                  out[sx * per_seed + ix + 1].seed = seeds[sx + 1])
    /\ [][IsPrefix(out, out')]_vars

C4_Witness ==
    /\ pc = "done" /\ ~early /\ ~dry_run
    /\ Len(seeds) = 2 /\ per_seed = 2 /\ Len(out) = 4
    /\ out[2].error # <<>> /\ out[3].error = <<>>

\* C5: an item all of whose dispatches failed (transport exception or
\* non-2xx status) is recorded only after exactly the maximum number of
\* attempts, and as an error.
C5_RetryBounding ==
    [][(Len(out') = Len(out) + 1 /\ ~dry_run /\ last'.allFailed)
          => (attempt + 1 = MaxAttempts /\ out'[Len(out')].error # <<>>)]_vars

\* C6: a run ends before all len(seeds) * per_seed items are recorded only
\* by the early stop on remaining tokens <= threshold.
C6_FailureIsolation ==
    (Ended /\ Len(out) < total) => (pc = "done" /\ early /\ last.low)

\* C7 (as claimed): when the process is terminated during a run of
\* generate_bulk_rate_safe, the file holds every completed result, except
\* possibly the latest one.
C7_AbortKeepsResults ==
    (fn = "bulk" /\ pc = "killed" /\ out # <<>>)
        => EndsWith(SubSeq(out, 1, Len(out) - 1))

\* C7 (amended): generate_bulk_rate_safe writes the file only when it
\* returns, after the last item or at the early stop on a response with
\* remaining tokens <= threshold, and then the file holds exactly the
\* accumulated results; until then, and so when the process is terminated
\* during the run, the file holds its content from before the run.
C7_WrittenOnlyAtReturn ==
    fn = "bulk" =>
        /\ (pc \in {"loop", "killed"} => (file = file0 /\ ~wrote))
        /\ (wrote => /\ pc = "done"
                     /\ file = [kind |-> "list", recs |-> out]
                     /\ (early => last.low)
                     /\ (~early => Len(out) = total))

C7_Witness ==
    /\ fn = "bulk" /\ pc = "killed"
    /\ Len(out) >= 2 /\ file0.kind = "list" /\ file0.recs # <<>>
    /\ file = file0

\* C8: a dry run of generate_for_locale makes no HTTP dispatch, every record
\* carries a preview, a null visitor message and no error, and the finished
\* run has len(seeds) * per_seed records.
C8_DryRun ==
    (fn = "locale" /\ dry_run) =>
        /\ ~dispatched
        /\ \A k \in 1..Len(out) :
              /\ out[k].preview # <<>>
              /\ out[k].visitor_message = <<>>
              /\ out[k].error = <<>>
        /\ (pc = "done" => Len(out) = Len(seeds) * per_seed)

C8_Witness ==
    /\ fn = "locale" /\ dry_run /\ pc = "done"
    /\ Len(seeds) = 2 /\ per_seed = 2 /\ Len(out) = 4

\* C9: every record of a run that is not a dry run has either a non-empty
\* visitor message and no error, or an error and no visitor message; a
\* record with neither is a dry-run record with a preview.
C9_ResultShape ==
    \A k \in 1..Len(out) :
       LET rec == out[k]
           message == rec.visitor_message # <<>> /\ rec.visitor_message[1] # <<>>
       IN  IF dry_run
           THEN ~message /\ rec.error = <<>> /\ rec.preview # <<>>
           ELSE message # (rec.error # <<>>)

\* C10: when a file access of the run fails, the run returns the list of
\* results and does not raise.
C10_WriteFailure ==
    writeFailed => (pc = "done" /\ ret = "list")

\* C11: in both functions a 2xx response whose body is not JSON is not
\* retried and is not an error: no item is dispatched again after a 2xx
\* status, and an item that got a 2xx status is not recorded as an error.
C11_MalformedBody ==
    ~dry_run =>
        /\ ~(httpOk /\ attempt > 0)
        /\ (out # <<>> /\ ~last.allFailed) => out[Len(out)].error = <<>>

\* C19: whatever the shape of a parsed response body, the run does not
\* raise while reading it.
C19_ShapeTolerance == exc # "AttributeError"

\* a stored text without stripped control characters and no longer than
\* max_len plus the truncation marker
Clean(t) ==
    /\ \A k \in 1..Len(t) : t[k] # CTL
    /\ Len(t) <= max_len + Len(TruncationMarker)

\* C20: in both functions every visitor_message in the accumulator, and so
\* every one the run writes to the file, is sanitized.
C20_StoredTextSanitized ==
    \A k \in 1..Len(out) :
        out[k].visitor_message # <<>> => Clean(out[k].visitor_message[1])

\* C13: sanitize_text is idempotent: applied to its own result it returns
\* that result unchanged.
C13_Idempotent == san.step = 2 => san.z = san.y

\* a string that is both stripped and cut, sanitized twice
C13_Witness ==
    /\ san.step = 2
    /\ \E k \in 1..Len(san.x) : san.x[k] = CTL
    /\ Len(StripControl(san.x)) > max_len
    /\ Len(san.y) = max_len + Len(TruncationMarker)

\* C14: a string longer than max_len (after the strip) becomes its first
\* max_len characters followed by the marker; the result is never longer
\* than max_len plus the marker; a string not longer than max_len gets no
\* marker and comes back as its stripped self.
C14_Truncation ==
    san.step >= 1 =>
        LET stripped == StripControl(san.x)
        IN  /\ Len(san.y) <= max_len + Len(TruncationMarker)
            /\ Len(stripped) > max_len =>
                  /\ SubSeq(san.y, 1, max_len) = SubSeq(stripped, 1, max_len)
                  /\ SubSeq(san.y, max_len + 1, Len(san.y)) = TruncationMarker
            /\ Len(stripped) <= max_len => san.y = stripped

\* a string of exactly max_len characters comes back whole
C14_Witness ==
    /\ san.step = 1
    /\ Len(san.x) = max_len
    /\ san.y = san.x

\* C12: when GROQ_API_KEY or GROQ_API_URL is not set, loading the module
\* fails, in both modules, and requests.post is never called.
C12_MissingConfigFatal ==
    (pc # "start" /\ ~(cfg.hasKey /\ cfg.hasUrl))
        => (pc = "crashed" /\ exc = "EnvironmentError" /\ ~dispatched)

\* C15: the max_tokens of every dispatch is max(32, floor(kb * 1024 / 4)),
\* floor(q) being the integer n with n <= q < n + 1; it is 32 for kb = 0 and
\* 256 for kb = 1.
C15_TokenBudget ==
    obs.dispatches > 0 =>
        LET n == obs.max_tokens
        IN  /\ n >= 32
            /\ n > 32 => (4 * n <= cfg.kb * 1024 /\ cfg.kb * 1024 < 4 * (n + 1))
            /\ n = 32 => cfg.kb * 1024 < 4 * (32 + 1)
            /\ cfg.kb = 0 => n = 32
            /\ cfg.kb = 1 => n = 256

\* a retry dispatched with kb = 2
C15_Witness ==
    /\ cfg.kb = 2 /\ obs.dispatches >= 2 /\ attempt > 0
    /\ obs.max_tokens = 512

\* the index of the current item
Position == (s - 1) * per_seed + i

\* C16, as the code has it: an item is dispatched at most MaxAttempts times
\* and the run at most len(seeds) * per_seed * MaxAttempts times; the item at
\* work is always the one after the recorded ones, so a recorded item is never
\* dispatched again; a run that returns without early stop has recorded every
\* item; and every run eventually stops, by returning, by the early stop or
\* by raising.
C16_BoundedTermination ==
    /\ [](/\ attempt < MaxAttempts
          /\ obs.dispatches <= total * MaxAttempts
          /\ obs.dispatches <= (Len(out) + 1) * MaxAttempts
          /\ (per_seed > 0 /\ pc # "done") => Position \in {Len(out), Len(out) - 1}
          /\ (pc = "done" /\ ~early) => Len(out) = total)
    /\ [][Len(out') >= Len(out) /\ Position' >= Position]_vars
    /\ <>(pc \notin {"start", "loop"})

\* a run of two items that used every attempt of both
C16_Witness ==
    /\ fn = "bulk" /\ pc = "done" /\ total = 2
    /\ obs.dispatches = 2 * BULK_MAX_ATTEMPTS

\* C16, as stated: when the run has returned, every item has been recorded
\* as succeeded or failed.
C16_EveryItemEnds == pc = "done" => Len(out) = total

\* C17: whenever the loop is about to dispatch again, it has slept at least
\* the throttle since its previous dispatch.
C17_MinDelay ==
    (pc = "loop" /\ HasItem /\ obs.dispatches > 0)
        => obs.slept >= cfg.throttle_delay

\* the sleep the 429 priority order asks for, in milliseconds
PrioritySleep ==
    IF cfg.hints.header.kind = "num" THEN cfg.hints.header.val
    ELSE IF cfg.hints.hintMs > 0 THEN cfg.hints.hintMs
    ELSE 1000

\* C18: in every loop, a dispatch answered 429 is followed by a sleep of the
\* retry-after value, else of the body's N milliseconds, else of 1 second.
C18_Pacing429 ==
    (obs.dispatches > 0 /\ obs.status = 429) => obs.sleep_for = PrioritySleep

============================================================================
